---- MODULE Spec2Model ----
(***************************************************************************)
(* A state-machine model of the SRTA governance core                       *)
(* (srta_core/governance/governance_core.py) and of the hash-linked audit  *)
(* trail (srta/core/srta_architecture.py, CryptographicAuditTrail).        *)
(*                                                                         *)
(* Numbers.  Python floats are modelled in fixed point:                    *)
(*   - signal values and thresholds in units of 1/10000 (0.20 is 2000),    *)
(*   - policy weights in units of 0.5 (2.0 is 4),                          *)
(*   - responsibility shares in units of 1/Unit (1.0 is Unit).             *)
(* Strings built by f-strings are modelled as tuples of their parts, the   *)
(* empty string as the empty tuple.  An Optional value is <<>> (None) or   *)
(* <<v>>.  A digest is modelled as an injective constructor over its       *)
(* input (collision-free) together with the length of its hex form.        *)
(***************************************************************************)
EXTENDS Integers, Sequences, FiniteSets, TLC

VARIABLES
    pc,                  \* "new" (no constructor call yet) | "ready" | "failed"
    ctor_args,           \* the (policies, actors) the constructor was called with
    policies,            \* GovernanceCore.policies: the id-indexed dict, in insertion order
    actors,              \* GovernanceCore.actors
    evaluation_history,  \* GovernanceCore.evaluation_history
    clock,               \* number of evaluate() calls so far: the reading of datetime.now
    outcome,             \* how the last evaluate() call ended: "none" | "returned" | "ZeroDivisionError"
    last_call,           \* the arguments of the last evaluate() call, <<>> before the first
    audit_records,       \* CryptographicAuditTrail.audit_records
    hash_chain,          \* CryptographicAuditTrail.hash_chain
    integrity_verified,  \* CryptographicAuditTrail.integrity_verified
    appended,            \* the records as add_record stored them (history variable)
    verified,            \* what the last verify_integrity() returned: "none" | "true" | "false"
    thread_pc,           \* where each concurrent caller stands inside its call
    thread_local,        \* the local variables of each concurrent caller
    query,               \* the last read-only call on the engine, its arguments and its result
    response,            \* what the /evaluate endpoint answered to the last request
    heap,                \* the dict objects owned by the caller, by reference
    results_log,         \* NotebookGovernanceWrapper.results_log
    snapshots            \* the records as evaluate() returned them (history variable)

govVars == <<pc, ctor_args, policies, actors, evaluation_history, clock, outcome, last_call>>
chainVars == <<audit_records, hash_chain, integrity_verified, appended, verified>>
threadVars == <<thread_pc, thread_local>>
callerVars == <<query, response, heap, results_log, snapshots>>
vars == <<govVars, chainVars, threadVars, callerVars>>

(***************************************************************************)
(* Bounds of the model.                                                    *)
(***************************************************************************)
MaxPolicies == 2    \* longest policy list handed to the constructor
MaxCalls == 2       \* evaluate() calls per engine
MaxRecords == 3     \* add_record calls per audit trail
NumThreads == 2     \* concurrent callers of one object

Threads == 1..NumThreads

(***************************************************************************)
(* Program constants.                                                      *)
(***************************************************************************)
Tolerance == 10          \* 0.001, the absolute tolerance of "=="
HexDigestLen == 64       \* length of sha256(...).hexdigest()
IdPrefixLen == 16        \* decision_id = output_hash[:16]
MinHashLen == 16         \* validate: len(hash_field) < 16 is malformed
BlockMultiplier == 3     \* severity_multiplier["block"]
ReviewMultiplier == 2    \* severity_multiplier["review"]
WarnMultiplier == 1      \* severity_multiplier["warn"], and the default of .get
Unit == 1000 * 1000      \* the share 1.0

None == <<>>
Some(v) == <<v>>

(***************************************************************************)
(* Small helpers over sequences and maps.                                  *)
(***************************************************************************)
Range(s) == {s[i] : i \in 1..Len(s)}

RECURSIVE SumOver(_, _)
SumOver(f, S) ==
    IF S = {} THEN 0
    ELSE LET k == CHOOSE x \in S : TRUE IN f[k] + SumOver(f, S \ {k})

\* sum(d.values()) of a dict d
SumValues(d) == SumOver(d, DOMAIN d)

\* The strings used as owners, in Python's (code point) order: sorted() follows it.
OwnerOrder == <<"DataScience", "Ethics", "Legal", "Operations", "Quality", "Safety">>

\* sorted(set(...)) of a set of owner names
SortedOwners(S) == SelectSeq(OwnerOrder, LAMBDA o : o \in S)

\* SeqsUpTo(S, n): the lists over S of length at most n
RECURSIVE SeqsUpTo(_, _)
SeqsUpTo(S, n) ==
    IF n = 0 THEN {<<>>}
    ELSE LET shorter == SeqsUpTo(S, n - 1)
         IN shorter \cup {Append(s, x) : s \in {t \in shorter : Len(t) = n - 1}, x \in S}

(***************************************************************************)
(* Inputs.                                                                 *)
(***************************************************************************)
Policy(id, owner, signal, operator, threshold, severity, weight) ==
    [id |-> id, owner |-> owner, signal |-> signal, operator |-> operator,
     threshold |-> threshold, severity |-> severity, weight |-> weight]

\* The policies a caller may hand to the constructor.  The first two are the
\* demo's SAFETY_FACT_MIN and ETHICS_TOX_MAX; the others vary operator,
\* severity, weight (zero and negative included), owner, and reuse an id.
PolicyPool ==
    { Policy("SAFETY_FACT_MIN", "Safety", "fact_score", ">", 7000, "review", 4),
      Policy("ETHICS_TOX_MAX", "Ethics", "toxicity", "<", 2000, "block", 6),
      Policy("QUALITY_TOX_WARN", "Safety", "toxicity", "<=", 1000, "warn", 2),
      Policy("ETHICS_FACT_EQ", "Ethics", "fact_score", "==", 5500, "block", 0),
      Policy("LEGAL_FACT_MIN", "Legal", "fact_score", ">=", 5500, "review", 2),
      Policy("ETHICS_TOX_MAX", "Legal", "toxicity", "<", 5000, "warn", 2),
      Policy("SAFETY_TOX_NE", "Safety", "toxicity", "!=", 3500, "warn", 2),
      Policy("ETHICS_FACT_NEG", "Ethics", "fact_score", ">", 9000, "review", -4) }

PolicyLists == SeqsUpTo(PolicyPool, MaxPolicies)

ActorSets == { {"Safety", "Ethics", "Operations"}, {"Ethics", "Legal"} }

SignalNames == {"toxicity", "fact_score"}

\* Values a signal may take: 0.10 and 0.35 for toxicity, 0.5505 for fact_score.
SignalValues(name) == IF name = "toxicity" THEN {1000, 3500} ELSE {5505}

\* Every signal map: each signal absent or present with one of its values.
SignalMaps ==
    UNION { {m \in [S -> UNION {SignalValues(k) : k \in SignalNames}] :
                 \A k \in S : m[k] \in SignalValues(k)} : S \in SUBSET SignalNames }

Prompts == {"q1"}
Outputs == {"r1"}
NoEvidence == <<>>

(***************************************************************************)
(* Digests.                                                                *)
(***************************************************************************)
\* hashlib.sha256(data).hexdigest(): injective in data, HexDigestLen characters
Sha256(data) == [of |-> data, len |-> HexDigestLen]

\* GovernanceCore._hash_content of a one- or three-key dict: json.dumps with
\* sort_keys gives one string per content, which is then digested
_hash_content(content) == Sha256(content)

\* h[:n] of a hex digest h
Prefix(h, n) == [of |-> h.of, len |-> IF h.len < n THEN h.len ELSE n]

(***************************************************************************)
(* GovernanceCore.__init__ and _validate_policies                          *)
(***************************************************************************)
\* Index of the entry of dict d (a sequence of policies) with key id, 0 if none
RECURSIVE IndexOfId(_, _, _)
IndexOfId(d, id, i) ==
    IF i > Len(d) THEN 0
    ELSE IF d[i].id = id THEN i
    ELSE IndexOfId(d, id, i + 1)

\* {p.id: p for p in ps}: a later policy with the same id replaces the value
\* and keeps the position of the first
RECURSIVE PolicyDict(_)
PolicyDict(ps) ==
    IF ps = <<>> THEN <<>>
    ELSE LET d == PolicyDict(SubSeq(ps, 1, Len(ps) - 1))
             p == ps[Len(ps)]
             i == IndexOfId(d, p.id, 1)
         IN IF i = 0 THEN Append(d, p) ELSE [d EXCEPT ![i] = p]

\* _validate_policies: the owners that are not actors
unknown_owners(dict, as) == {dict[i].owner : i \in 1..Len(dict)} \ as

\* __init__ raises ValueError exactly when _validate_policies does
ConstructorRaises(ps, as) == unknown_owners(PolicyDict(ps), as) # {}


(***************************************************************************)
(* GovernanceCore._evaluate_policy                                         *)
(***************************************************************************)
\* signals.get(key)
SignalGet(signals, key) == IF key \in DOMAIN signals THEN Some(signals[key]) ELSE None

Abs(x) == IF x < 0 THEN -x ELSE x

SupportedOperators == {"<", ">", "==", "<=", ">="}

\* Variant: "<=" and ">=" compare strictly
ConditionMet_strict_bounds(operator, value, threshold) ==
    CASE operator = "<" -> value < threshold
      [] operator = ">" -> value > threshold
      [] operator = "==" -> Abs(value - threshold) < Tolerance
      [] operator = "<=" -> value < threshold
      [] operator = ">=" -> value > threshold
      [] OTHER -> FALSE

\* condition_met of the if/elif chain; the final else sets it to False
ConditionMet(operator, value, threshold) ==
    CASE operator = "<" -> value < threshold
      [] operator = ">" -> value > threshold
      [] operator = "==" -> Abs(value - threshold) < Tolerance
      [] operator = "<=" -> value <= threshold
      [] operator = ">=" -> value >= threshold
      [] OTHER -> FALSE

PolicyEval(policy, passed, score, reason) ==
    [policy_id |-> policy.id, owner |-> policy.owner, passed |-> passed,
     score |-> score, operator |-> policy.operator, threshold |-> policy.threshold,
     severity |-> policy.severity, reason |-> reason, weight |-> policy.weight]

\* Variant: the warn override is applied to a missing signal too
_evaluate_policy_warn_overrides_missing(policy, signals) ==
    LET signal_value == SignalGet(signals, policy.signal)
        value == IF signal_value = None THEN 0 ELSE signal_value[1]
        condition_met == signal_value # None
                         /\ ConditionMet(policy.operator, value, policy.threshold)
    IN IF policy.severity = "warn"
       THEN PolicyEval(policy, TRUE, signal_value,
                IF signal_value = None THEN <<"signal_missing", policy.signal>>
                ELSE IF ~condition_met
                THEN <<"warning_condition_not_met", value, policy.operator, policy.threshold>>
                ELSE <<>>)
       ELSE PolicyEval(policy, condition_met, signal_value,
                IF signal_value = None THEN <<"signal_missing", policy.signal>>
                ELSE IF ~condition_met
                THEN <<"condition_failed", value, policy.operator, policy.threshold>>
                ELSE <<>>)

_evaluate_policy(policy, signals) ==
    LET signal_value == SignalGet(signals, policy.signal)
    IN IF signal_value = None
       THEN PolicyEval(policy, FALSE, signal_value, <<"signal_missing", policy.signal>>)
       ELSE LET value == signal_value[1]
                condition_met == ConditionMet(policy.operator, value, policy.threshold)
                \* reason as the operator chain leaves it
                reason0 == IF policy.operator \in SupportedOperators
                           THEN <<>>
                           ELSE <<"unsupported_operator", policy.operator>>
            IN IF policy.severity = "warn"
               THEN PolicyEval(policy, TRUE, signal_value,
                        IF ~condition_met
                        THEN <<"warning_condition_not_met", value, policy.operator, policy.threshold>>
                        ELSE reason0)
               ELSE PolicyEval(policy, condition_met, signal_value,
                        IF ~condition_met
                        THEN <<"condition_failed", value, policy.operator, policy.threshold>>
                        ELSE reason0)

(***************************************************************************)
(* GovernanceCore._determine_action                                        *)
(***************************************************************************)
Ids(evals) == [i \in 1..Len(evals) |-> evals[i].policy_id]
Owners(evals) == {evals[i].owner : i \in 1..Len(evals)}

\* Variant: review failures are looked at before blocking failures
_determine_action_review_first(evaluations) ==
    LET blocking_failures == SelectSeq(evaluations, LAMBDA e : ~e.passed /\ e.severity = "block")
        review_failures == SelectSeq(evaluations, LAMBDA e : ~e.passed /\ e.severity = "review")
        warnings == SelectSeq(evaluations, LAMBDA e : e.severity = "warn" /\ e.reason # <<>>)
    IN IF review_failures # <<>>
       THEN [action |-> "REVIEW",
             reason |-> <<"review_required_policies", Ids(review_failures),
                          SortedOwners(Owners(review_failures))>>]
       ELSE IF blocking_failures # <<>>
       THEN [action |-> "BLOCK",
             reason |-> <<"blocked_by_policies", Ids(blocking_failures),
                          SortedOwners(Owners(blocking_failures))>>]
       ELSE IF warnings # <<>>
       THEN [action |-> "ALLOW", reason |-> <<"allowed_with_warnings", Ids(warnings)>>]
       ELSE [action |-> "ALLOW", reason |-> <<"all_policies_passed">>]

_determine_action(evaluations) ==
    LET blocking_failures == SelectSeq(evaluations, LAMBDA e : ~e.passed /\ e.severity = "block")
        review_failures == SelectSeq(evaluations, LAMBDA e : ~e.passed /\ e.severity = "review")
        warnings == SelectSeq(evaluations, LAMBDA e : e.severity = "warn" /\ e.reason # <<>>)
    IN IF blocking_failures # <<>>
       THEN [action |-> "BLOCK",
             reason |-> <<"blocked_by_policies", Ids(blocking_failures),
                          SortedOwners(Owners(blocking_failures))>>]
       ELSE IF review_failures # <<>>
       THEN [action |-> "REVIEW",
             reason |-> <<"review_required_policies", Ids(review_failures),
                          SortedOwners(Owners(review_failures))>>]
       ELSE IF warnings # <<>>
       THEN [action |-> "ALLOW", reason |-> <<"allowed_with_warnings", Ids(warnings)>>]
       ELSE [action |-> "ALLOW", reason |-> <<"all_policies_passed">>]

(***************************************************************************)
(* GovernanceCore._distribute_responsibility                               *)
(***************************************************************************)
\* Variant: every severity weighs the same
severity_multiplier_flat(severity) == WarnMultiplier

severity_multiplier(severity) ==
    CASE severity = "block" -> BlockMultiplier
      [] severity = "review" -> ReviewMultiplier
      [] severity = "warn" -> WarnMultiplier
      [] OTHER -> WarnMultiplier

\* responsibility_scores after the loop: the owners of the evaluations with a
\* reason, each with the sum of weight * multiplier over its evaluations
RECURSIVE ScoreOf(_, _, _)
ScoreOf(evaluations, owner, i) ==
    IF i > Len(evaluations) THEN 0
    ELSE (IF evaluations[i].reason # <<>> /\ evaluations[i].owner = owner
          THEN evaluations[i].weight * severity_multiplier(evaluations[i].severity)
          ELSE 0) + ScoreOf(evaluations, owner, i + 1)

responsibility_scores(evaluations) ==
    LET flagged == SelectSeq(evaluations, LAMBDA e : e.reason # <<>>)
    IN [o \in Owners(flagged) |-> ScoreOf(evaluations, o, 1)]

\* The float quotient a / b for b # 0, as a share in units of 1/Unit
Quotient(a, b) == IF b > 0 THEN (a * Unit) \div b ELSE ((-a) * Unit) \div (-b)

\* score / total_score raises ZeroDivisionError when the scores sum to zero
DistributeRaises(evaluations) ==
    LET scores == responsibility_scores(evaluations)
    IN DOMAIN scores # {} /\ SumValues(scores) = 0

\* Variant: each score is divided by the largest score, not by the total
_distribute_responsibility_by_max(evaluations) ==
    LET scores == responsibility_scores(evaluations)
        largest == CHOOSE x \in {scores[o] : o \in DOMAIN scores} :
                       \A o \in DOMAIN scores : scores[o] <= x
    IN IF DOMAIN scores = {}
       THEN [o \in {"Operations"} |-> Unit]
       ELSE [o \in DOMAIN scores |-> Quotient(scores[o], IF largest = 0 THEN 1 ELSE largest)]

\* Variant: with no issue the whole share goes to the owner of the first policy
_distribute_responsibility_to_first_owner(evaluations) ==
    LET scores == responsibility_scores(evaluations)
        total_score == SumValues(scores)
    IN IF DOMAIN scores = {}
       THEN [o \in {IF evaluations = <<>> THEN "Operations" ELSE evaluations[1].owner} |-> Unit]
       ELSE [o \in DOMAIN scores |-> Quotient(scores[o], total_score)]

_distribute_responsibility(evaluations) ==
    LET scores == responsibility_scores(evaluations)
        total_score == SumValues(scores)
    IN IF DOMAIN scores = {}
       THEN [o \in {"Operations"} |-> Unit]
       ELSE [o \in DOMAIN scores |-> Quotient(scores[o], total_score)]


(***************************************************************************)
(* GovernanceCore.evaluate and RTR.validate                                *)
(***************************************************************************)
\* evaluations = [self._evaluate_policy(policy, signals) for policy in self.policies.values()]
EvaluateAll(dict, signals) == [i \in 1..Len(dict) |-> _evaluate_policy(dict[i], signals)]

\* evaluate() raises exactly when _distribute_responsibility divides by zero
EvaluateRaises(dict, signals) == DistributeRaises(EvaluateAll(dict, signals))

\* Variant: a call after the first one is never let through unreviewed
evaluate_escalating_repeats(dict, prompt, output, signals, evidences, decision_id, timestamp) ==
    LET evaluations == EvaluateAll(dict, signals)
        decision == _determine_action(evaluations)
        output_hash == _hash_content([output |-> output])
    IN [decision_id |-> Prefix(output_hash, IdPrefixLen),
        timestamp |-> timestamp,
        request_hash |-> _hash_content([prompt |-> prompt]),
        output_hash |-> output_hash,
        signals |-> signals,
        policies |-> evaluations,
        responsibility |-> _distribute_responsibility(evaluations),
        action |-> IF timestamp > 1 /\ decision.action = "ALLOW" THEN "REVIEW" ELSE decision.action,
        reason |-> decision.reason,
        evidences |-> evidences,
        audit |-> <<>>,
        metadata |-> <<>>]

\* The RTR evaluate() builds, appends to the history and returns.
\* decision_id is None or Some(id); timestamp is the clock reading.
evaluate(dict, prompt, output, signals, evidences, decision_id, timestamp) ==
    LET request_hash == _hash_content([prompt |-> prompt])
        output_hash == _hash_content([output |-> output])
        evaluations == EvaluateAll(dict, signals)
        decision == _determine_action(evaluations)
        responsibility == _distribute_responsibility(evaluations)
        failed == SelectSeq(evaluations, LAMBDA e : ~e.passed)
        audit_info ==
            [evaluation_count |-> Len(evaluations),
             failed_policies |-> Len(failed),
             chain_hash |-> _hash_content([request |-> request_hash,
                                           output |-> output_hash,
                                           timestamp |-> timestamp])]
    IN [decision_id |-> IF decision_id = None
                        THEN Prefix(output_hash, IdPrefixLen)
                        ELSE decision_id[1],
        timestamp |-> timestamp,
        request_hash |-> request_hash,
        output_hash |-> output_hash,
        signals |-> signals,
        policies |-> evaluations,
        responsibility |-> responsibility,
        action |-> decision.action,
        reason |-> decision.reason,
        evidences |-> evidences,
        audit |-> audit_info,
        metadata |-> <<>>]

\* RTR.validate: the list of issues; the record is valid when it is empty.
\* A field is missing when its value is None, "", {} or [].
missing_required_fields(rtr) ==
    (IF rtr.decision_id.len = 0 THEN <<<<"missing_required_field", "decision_id">>>> ELSE <<>>)
    \o (IF rtr.request_hash.len = 0 THEN <<<<"missing_required_field", "request_hash">>>> ELSE <<>>)
    \o (IF rtr.output_hash.len = 0 THEN <<<<"missing_required_field", "output_hash">>>> ELSE <<>>)
    \o (IF DOMAIN rtr.signals = {} THEN <<<<"missing_required_field", "signals">>>> ELSE <<>>)
    \o (IF Len(rtr.policies) = 0 THEN <<<<"missing_required_field", "policies">>>> ELSE <<>>)
    \o (IF DOMAIN rtr.responsibility = {} THEN <<<<"missing_required_field", "responsibility">>>> ELSE <<>>)

\* Variant: a sum of exactly 0.99 or 1.01 is reported as invalid
responsibility_issues_open_interval(rtr) ==
    IF DOMAIN rtr.responsibility = {} THEN <<>>
    ELSE LET total == SumValues(rtr.responsibility)
             negative_resp == {k \in DOMAIN rtr.responsibility : rtr.responsibility[k] < 0}
         IN (IF ~(99 * Unit < 100 * total /\ 100 * total < 101 * Unit)
             THEN <<<<"responsibility_sum_invalid", total>>>> ELSE <<>>)
            \o (IF negative_resp # {}
                THEN <<<<"negative_responsibility", negative_resp>>>> ELSE <<>>)

responsibility_issues(rtr) ==
    IF DOMAIN rtr.responsibility = {} THEN <<>>
    ELSE LET total == SumValues(rtr.responsibility)
             negative_resp == {k \in DOMAIN rtr.responsibility : rtr.responsibility[k] < 0}
         IN (IF ~(99 * Unit <= 100 * total /\ 100 * total <= 101 * Unit)
             THEN <<<<"responsibility_sum_invalid", total>>>> ELSE <<>>)
            \o (IF negative_resp # {}
                THEN <<<<"negative_responsibility", negative_resp>>>> ELSE <<>>)

hash_issues(rtr) ==
    IF rtr.request_hash.len < MinHashLen \/ rtr.output_hash.len < MinHashLen
    THEN <<<<"invalid_hash_format">>>> ELSE <<>>

owner_issues(rtr) ==
    IF Len(rtr.policies) = 0 THEN <<>>
    ELSE LET missing_owners == Owners(rtr.policies) \ DOMAIN rtr.responsibility
         IN IF missing_owners # {}
            THEN <<<<"missing_responsibility_for_owners", missing_owners>>>> ELSE <<>>

validate(rtr) ==
    LET issues == missing_required_fields(rtr) \o responsibility_issues(rtr)
                  \o hash_issues(rtr) \o owner_issues(rtr)
    IN [valid |-> Len(issues) = 0, issues |-> issues]

(***************************************************************************)
(* The state machine of one GovernanceCore.                                *)
(***************************************************************************)
GovInit ==
    /\ pc = "new"
    /\ ctor_args = [policies |-> <<>>, actors |-> {}]
    /\ policies = <<>>
    /\ actors = {}
    /\ evaluation_history = <<>>
    /\ clock = 0
    /\ outcome = "none"
    /\ last_call = <<>>

\* GovernanceCore(policies=ps, actors=as): on ValueError no engine exists
Construct(ps, as) ==
    /\ pc = "new"
    /\ ctor_args' = [policies |-> ps, actors |-> as]
    /\ IF ConstructorRaises(ps, as)
       THEN /\ pc' = "failed"
            /\ UNCHANGED <<policies, actors>>
       ELSE /\ pc' = "ready"
            /\ policies' = PolicyDict(ps)
            /\ actors' = as
    /\ UNCHANGED <<evaluation_history, clock, outcome, last_call>>

\* engine.evaluate(prompt, output, signals, evidences)
Evaluate(prompt, output, signals, evidences) ==
    /\ pc = "ready"
    /\ clock < MaxCalls
    /\ clock' = clock + 1
    /\ last_call' = [prompt |-> prompt, output |-> output, signals |-> signals,
                     evidences |-> evidences]
    /\ IF EvaluateRaises(policies, signals)
       THEN /\ outcome' = "ZeroDivisionError"
            /\ UNCHANGED evaluation_history
       ELSE /\ outcome' = "returned"
            /\ evaluation_history' =
                   Append(evaluation_history,
                          evaluate(policies, prompt, output, signals, evidences, None, clock + 1))
    /\ UNCHANGED <<pc, ctor_args, policies, actors>>

ChainInit ==
    /\ audit_records = <<>>
    /\ hash_chain = <<>>
    /\ integrity_verified = TRUE
    /\ appended = <<>>
    /\ verified = "none"

\* No concurrent caller has started
ThreadInit ==
    /\ thread_pc = [t \in Threads |-> "idle"]
    /\ thread_local = [t \in Threads |-> None]

\* The caller has made no query and no request, and owns no dict
CallerInit ==
    /\ query = None
    /\ response = None
    /\ heap = <<>>
    /\ results_log = <<>>
    /\ snapshots = <<>>

Init == GovInit /\ ChainInit /\ ThreadInit /\ CallerInit

Next ==
    \/ \E ps \in PolicyLists, as \in ActorSets : Construct(ps, as) /\ UNCHANGED <<chainVars, threadVars, callerVars>>
    \/ \E prompt \in Prompts, output \in Outputs, signals \in SignalMaps :
           Evaluate(prompt, output, signals, NoEvidence) /\ UNCHANGED <<chainVars, threadVars, callerVars>>

Spec == Init /\ [][Next]_vars


(***************************************************************************)
(* CryptographicAuditTrail                                                 *)
(*                                                                         *)
(* A record is a dict from keys to values.  A value is <<"str", s>> (a     *)
(* string), <<"num", n>> (a number) or <<"obj", s>>: an object json cannot *)
(* serialize, whose str() is s.                                            *)
(***************************************************************************)
Str(s) == <<"str", s>>
Num(n) == <<"num", n>>
Obj(s) == <<"obj", s>>

\* What json.dumps(..., default=str) writes for one value: an object is
\* replaced by str(object) and written as a JSON string
JsonValue(v) == IF v[1] = "obj" THEN Str(v[2]) ELSE v

\* json.dumps(record, sort_keys=True, default=str): the keys in sorted order,
\* so the text depends on the key/value pairs only
JsonDumps(record) == [k \in DOMAIN record |-> JsonValue(record[k])]

\* The records a caller may add: with or without a 'type', and a payload
ChainInputs ==
    { [data |-> d] : d \in {Str("a"), Str("b"), Obj("a")} }
    \cup { [type |-> Str("eval"), data |-> d] : d \in {Str("a"), Str("b"), Obj("a")} }

\* {**record, 'timestamp': ..., 'sequence_number': ..., 'record_type': ..., 'version': '1.0'}
record_with_metadata(record, timestamp, sequence_number) ==
    [k \in DOMAIN record \cup {"timestamp", "sequence_number", "record_type", "version"} |->
        CASE k = "timestamp" -> Str(timestamp)
          [] k = "sequence_number" -> Num(sequence_number)
          [] k = "record_type" -> (IF "type" \in DOMAIN record THEN record["type"] ELSE Str("general"))
          [] k = "version" -> Str("1.0")
          [] OTHER -> record[k]]

\* Variant: the previous chain hash is left out of the digest
_generate_hash_unchained(record, chain) == Sha256(<<JsonDumps(record), <<>>>>)

\* _generate_hash: the serialized record followed by the last chain hash, if any
_generate_hash(record, chain) ==
    Sha256(<<JsonDumps(record), IF chain # <<>> THEN chain[Len(chain)] ELSE <<>>>>)

\* _generate_hash_at_position (positions count from 0, sequences from 1)
_generate_hash_at_position(record, position, chain) ==
    Sha256(<<JsonDumps(record), IF position > 0 THEN chain[position] ELSE <<>>>>)

\* The value verify_integrity() returns
verify_integrity(records, chain) ==
    \A i \in 1..Len(records) : _generate_hash_at_position(records[i], i - 1, chain) = chain[i]

\* trail.add_record(record); the clock reading is the number of records so far
AddRecord(record) ==
    /\ Len(audit_records) < MaxRecords
    /\ LET stored == record_with_metadata(record, Len(appended), Len(audit_records))
       IN /\ audit_records' = Append(audit_records, stored)
          /\ hash_chain' = Append(hash_chain, _generate_hash(stored, hash_chain))
          /\ appended' = Append(appended, stored)
    /\ UNCHANGED <<integrity_verified, verified>>

\* trail.verify_integrity()
VerifyIntegrity ==
    /\ LET ok == verify_integrity(audit_records, hash_chain)
       IN /\ integrity_verified' = ok
          /\ verified' = IF ok THEN "true" ELSE "false"
    /\ UNCHANGED <<audit_records, hash_chain, appended>>

\* The values an in-place edit may write under a key
EditValues(key) ==
    CASE key = "sequence_number" -> {Num(n) : n \in 0..MaxRecords}
      [] key = "timestamp" -> {Str(n) : n \in 0..MaxRecords}
      [] key = "data" -> {Str("a"), Str("b"), Obj("a")}
      [] OTHER -> {Str("eval"), Str("general"), Str("1.0")}

\* trail.audit_records[i][key] = v: one stored record is changed in place,
\* the hash chain is left as it is
Tamper(i, key, v) ==
    /\ audit_records = appended
    /\ i \in 1..Len(audit_records)
    /\ key \in DOMAIN audit_records[i]
    /\ v # audit_records[i][key]
    /\ audit_records' = [audit_records EXCEPT ![i][key] = v]
    /\ UNCHANGED <<hash_chain, integrity_verified, appended, verified>>

ChainNext ==
    \/ \E record \in ChainInputs : AddRecord(record) /\ UNCHANGED <<govVars, threadVars, callerVars>>
    \/ VerifyIntegrity /\ UNCHANGED <<govVars, threadVars, callerVars>>
    \/ \E i \in 1..MaxRecords, key \in {"data", "type", "record_type", "sequence_number", "timestamp", "version"} :
           \E v \in EditValues(key) : Tamper(i, key, v) /\ UNCHANGED <<govVars, threadVars, callerVars>>

SpecChain == Init /\ [][ChainNext]_vars


(***************************************************************************)
(* Properties of the governance core (checked under Spec).                 *)
(***************************************************************************)
AllWeightsNonNegative == \A i \in 1..Len(policies) : policies[i].weight >= 0

FailedWith(rtr, severity) ==
    \E i \in 1..Len(rtr.policies) : ~rtr.policies[i].passed /\ rtr.policies[i].severity = severity

\* C1: in every record of the history, the action is BLOCK iff some
\* block-severity evaluation has passed = false; otherwise it is REVIEW iff
\* some review-severity evaluation has passed = false; otherwise it is ALLOW.
ActionFollowsSeverityPrecedence ==
    \A n \in 1..Len(evaluation_history) :
        LET rtr == evaluation_history[n]
        IN /\ (rtr.action = "BLOCK") <=> FailedWith(rtr, "block")
           /\ ~FailedWith(rtr, "block") =>
                  ((rtr.action = "REVIEW") <=> FailedWith(rtr, "review"))
           /\ (~FailedWith(rtr, "block") /\ ~FailedWith(rtr, "review")) => rtr.action = "ALLOW"

\* C1 witness: a record in which a block and a review evaluation both failed
\* and the action is BLOCK
BlockOutranksReviewReached ==
    \E n \in 1..Len(evaluation_history) :
        /\ FailedWith(evaluation_history[n], "block")
        /\ FailedWith(evaluation_history[n], "review")
        /\ evaluation_history[n].action = "BLOCK"

MissingFor(signals, severity) ==
    \E i \in 1..Len(policies) :
        policies[i].severity = severity /\ policies[i].signal \notin DOMAIN signals

\* C2: whenever an evaluate() call was made with a signal map that lacks the
\* signal of a block-severity policy, the call returned a record with action
\* BLOCK; when it lacks the signal of a review-severity policy and no
\* block-severity evaluation failed, it returned a record with action REVIEW.
\* (Stated for the engines of the data model, whose weights are >= 0.)
FailClosedOnMissingSignal ==
    (AllWeightsNonNegative /\ outcome # "none") =>
        LET signals == last_call.signals
            evaluations == EvaluateAll(policies, signals)
            block_failed == \E i \in 1..Len(evaluations) :
                                ~evaluations[i].passed /\ evaluations[i].severity = "block"
            returned(action) ==
                /\ outcome = "returned"
                /\ evaluation_history[Len(evaluation_history)].action = action
        IN /\ MissingFor(signals, "block") => returned("BLOCK")
           /\ (MissingFor(signals, "review") /\ ~block_failed) => returned("REVIEW")

\* The same for the calls that returned a record (this part holds)
FailClosedWhenReturned ==
    outcome = "returned" => FailClosedOnMissingSignal

\* C3: for every policy of the engine and every signal map that lacks the
\* policy's signal, the evaluation has passed = false and the reason
\* signal_missing:<signal>, whatever the severity and the operator; and so
\* has every such evaluation stored in the history.
MissingSignalNeverPasses ==
    /\ \A i \in 1..Len(policies) : \A signals \in SignalMaps :
           policies[i].signal \notin DOMAIN signals =>
               LET e == _evaluate_policy(policies[i], signals)
               IN ~e.passed /\ e.reason = <<"signal_missing", policies[i].signal>>
    /\ \A n \in 1..Len(evaluation_history) :
           \A i \in 1..Len(evaluation_history[n].policies) :
               LET rtr == evaluation_history[n]
               IN policies[i].signal \notin DOMAIN rtr.signals =>
                      /\ ~rtr.policies[i].passed
                      /\ rtr.policies[i].reason = <<"signal_missing", policies[i].signal>>

\* C3 witness: a stored evaluation of a warn policy with an unsupported
\* operator whose signal was missing, and which did not pass
WarnPolicyMissingSignalReached ==
    \E n \in 1..Len(evaluation_history) :
        \E i \in 1..Len(evaluation_history[n].policies) :
            LET e == evaluation_history[n].policies[i]
            IN /\ e.severity = "warn"
               /\ e.operator \notin SupportedOperators
               /\ e.score = None
               /\ ~e.passed

\* C4: the constructor fails iff some policy of the list it was given has an
\* owner outside the actor set it was given.
ConstructionFailsIffUnknownOwner ==
    pc # "new" =>
        ((pc = "failed") <=>
            \E i \in 1..Len(ctor_args.policies) :
                ctor_args.policies[i].owner \notin ctor_args.actors)

\* C5: on an engine whose policies all have weight >= 0, evaluate() never raises.
EvaluateNeverRaises ==
    (pc = "ready" /\ AllWeightsNonNegative) => outcome # "ZeroDivisionError"

\* C6: on an engine whose policies all have weight >= 0, every record of the
\* history has shares >= 0 that sum to a value within [0.99, 1.01].
SharesNonNegativeAndSumToOne ==
    AllWeightsNonNegative =>
        \A n \in 1..Len(evaluation_history) :
            LET responsibility == evaluation_history[n].responsibility
                total == SumValues(responsibility)
            IN /\ \A o \in DOMAIN responsibility : responsibility[o] >= 0
               /\ 99 * Unit <= 100 * total
               /\ 100 * total <= 101 * Unit

\* C6 witness: after two calls, a record that shares responsibility between
\* two owners unequally
TwoOwnersShareReached ==
    /\ AllWeightsNonNegative
    /\ Len(evaluation_history) = MaxCalls
    /\ \E n \in 1..Len(evaluation_history) :
           LET responsibility == evaluation_history[n].responsibility
           IN \E a, b \in DOMAIN responsibility :
                  0 < responsibility[a] /\ responsibility[a] < responsibility[b]

\* C7: every record evaluate() returned is valid: validate() reports no issue.
EveryReturnedRecordIsValid ==
    \A n \in 1..Len(evaluation_history) : validate(evaluation_history[n]).valid

SameInputs(a, b) ==
    /\ a.request_hash = b.request_hash
    /\ a.output_hash = b.output_hash
    /\ a.signals = b.signals
    /\ a.evidences = b.evidences

Untouched == audit_records = appended

\* C9: as long as only add_record has changed the trail, every stored chain
\* hash is the digest of the serialized stored record followed by the chain
\* hash stored before it (nothing for the first), and verify_integrity()
\* returns true.
ChainLinkedAndVerified ==
    Untouched =>
        /\ Len(hash_chain) = Len(audit_records)
        /\ \A i \in 1..Len(audit_records) :
               hash_chain[i] = Sha256(<<JsonDumps(audit_records[i]),
                                        IF i = 1 THEN <<>> ELSE hash_chain[i - 1]>>)
        /\ verify_integrity(audit_records, hash_chain)
        /\ verified # "false"

\* C9 witness: MaxRecords appends, then a verify_integrity() that returned true
FullChainVerifiedReached ==
    /\ Untouched
    /\ Len(audit_records) = MaxRecords
    /\ verified = "true"

\* C10: once a stored record differs from what add_record stored, with the
\* hash chain left as it is, verify_integrity() returns false.
EditedRecordIsDetected ==
    ~Untouched => ~verify_integrity(audit_records, hash_chain)


(***************************************************************************)
(* Concurrent add_record calls on one CryptographicAuditTrail.  The method *)
(* takes no lock, so another thread may run between any two of its         *)
(* statements: reading len(self.audit_records), hashing against            *)
(* self.hash_chain[-1], appending the record, appending the hash.          *)
(***************************************************************************)
Started == {t \in Threads : thread_pc[t] # "idle"}
AllDone == \A t \in Threads : thread_pc[t] = "done"

\* timestamp = datetime.now(...); sequence_number = len(self.audit_records);
\* record_with_metadata = {...}
BeginAddRecord(t, record) ==
    /\ thread_pc[t] = "idle"
    /\ thread_pc' = [thread_pc EXCEPT ![t] = "hashing"]
    /\ thread_local' = [thread_local EXCEPT ![t] =
           [record_with_metadata |->
                record_with_metadata(record, Cardinality(Started), Len(audit_records)),
            record_hash |-> None]]
    /\ UNCHANGED chainVars

\* record_hash = self._generate_hash(record_with_metadata)
HashRecord(t) ==
    /\ thread_pc[t] = "hashing"
    /\ thread_pc' = [thread_pc EXCEPT ![t] = "storing"]
    /\ thread_local' = [thread_local EXCEPT ![t].record_hash =
           _generate_hash(thread_local[t].record_with_metadata, hash_chain)]
    /\ UNCHANGED chainVars

\* self.audit_records.append(record_with_metadata)
StoreRecord(t) ==
    /\ thread_pc[t] = "storing"
    /\ thread_pc' = [thread_pc EXCEPT ![t] = "linking"]
    /\ audit_records' = Append(audit_records, thread_local[t].record_with_metadata)
    /\ appended' = Append(appended, thread_local[t].record_with_metadata)
    /\ UNCHANGED <<thread_local, hash_chain, integrity_verified, verified>>

\* self.hash_chain.append(record_hash); return record_hash
LinkHash(t) ==
    /\ thread_pc[t] = "linking"
    /\ thread_pc' = [thread_pc EXCEPT ![t] = "done"]
    /\ hash_chain' = Append(hash_chain, thread_local[t].record_hash)
    /\ UNCHANGED <<thread_local, audit_records, integrity_verified, appended, verified>>

\* trail.verify_integrity() once every caller has returned
VerifyAfterJoin ==
    /\ AllDone
    /\ VerifyIntegrity
    /\ UNCHANGED threadVars

AppendNext ==
    \/ \E t \in Threads, record \in ChainInputs :
           BeginAddRecord(t, record) /\ UNCHANGED <<govVars, callerVars>>
    \/ \E t \in Threads : HashRecord(t) /\ UNCHANGED <<govVars, callerVars>>
    \/ \E t \in Threads : StoreRecord(t) /\ UNCHANGED <<govVars, callerVars>>
    \/ \E t \in Threads : LinkHash(t) /\ UNCHANGED <<govVars, callerVars>>
    \/ VerifyAfterJoin /\ UNCHANGED <<govVars, callerVars>>

SpecAppend == Init /\ [][AppendNext]_vars

\* The sequence numbers of the stored records
SequenceNumbers == {audit_records[i]["sequence_number"] : i \in 1..Len(audit_records)}

\* Hash i is the digest of record i chained to the hash stored just before it
PairedAndChained ==
    \A i \in 1..Len(audit_records) :
        hash_chain[i] = _generate_hash(audit_records[i], SubSeq(hash_chain, 1, i - 1))

\* C11: once all the concurrent add_record calls on one chain have returned,
\* the chain holds one (record, hash) pair per call, record i is paired with
\* hash i, the sequence numbers are distinct, every hash is chained to the
\* hash stored immediately before it, and verify_integrity() is true.
ConcurrentAppendsAreSerialized ==
    AllDone =>
        /\ Len(audit_records) = NumThreads
        /\ Len(hash_chain) = NumThreads
        /\ Cardinality(SequenceNumbers) = NumThreads
        /\ PairedAndChained
        /\ verify_integrity(audit_records, hash_chain)

\* What the unlocked method does keep: one record and one hash per call
ConcurrentAppendsKeepEveryCall ==
    AllDone => Len(audit_records) = NumThreads /\ Len(hash_chain) = NumThreads


(***************************************************************************)
(* Concurrent evaluate() calls on one GovernanceCore.  A call reads the    *)
(* clock and self.policies, which no call writes, builds its record from   *)
(* its own arguments, and ends with one list.append on evaluation_history; *)
(* another thread may run between the two.                                 *)
(***************************************************************************)
AllFinished == \A t \in Threads : thread_pc[t] \in {"done", "raised"}
Returned == {t \in Threads : thread_pc[t] = "done"}

\* evaluate (lines 293-334): everything up to the RTR, or the exception
ComputeRTR(t, prompt, output, signals) ==
    /\ pc = "ready"
    /\ thread_pc[t] = "idle"
    /\ clock' = clock + 1
    /\ IF EvaluateRaises(policies, signals)
       THEN /\ thread_pc' = [thread_pc EXCEPT ![t] = "raised"]
            /\ thread_local' = [thread_local EXCEPT ![t] = [signals |-> signals, rtr |-> None]]
       ELSE /\ thread_pc' = [thread_pc EXCEPT ![t] = "appending"]
            /\ thread_local' = [thread_local EXCEPT ![t] =
                   [signals |-> signals,
                    rtr |-> Some(evaluate(policies, prompt, output, signals, NoEvidence,
                                          None, clock + 1))]]
    /\ UNCHANGED <<pc, ctor_args, policies, actors, evaluation_history, outcome, last_call>>

\* self.evaluation_history.append(rtr); return rtr
AppendRTR(t) ==
    /\ thread_pc[t] = "appending"
    /\ thread_pc' = [thread_pc EXCEPT ![t] = "done"]
    /\ evaluation_history' = Append(evaluation_history, thread_local[t].rtr[1])
    /\ UNCHANGED <<thread_local, pc, ctor_args, policies, actors, clock, outcome, last_call>>

EvaluateNext ==
    \/ \E ps \in PolicyLists, as \in ActorSets :
           Construct(ps, as) /\ UNCHANGED <<chainVars, threadVars, callerVars>>
    \/ \E t \in Threads, prompt \in Prompts, output \in Outputs, signals \in SignalMaps :
           ComputeRTR(t, prompt, output, signals) /\ UNCHANGED <<chainVars, callerVars>>
    \/ \E t \in Threads : AppendRTR(t) /\ UNCHANGED <<chainVars, callerVars>>

SpecEvaluate == Init /\ [][EvaluateNext]_vars

\* The decision of a record: what the caller acts on
Decision(rtr) ==
    [action |-> rtr.action, reason |-> rtr.reason, responsibility |-> rtr.responsibility]

\* The call of thread t returned what the same call returns on an engine
\* nobody else is using
SameAsAlone(t) ==
    /\ thread_pc[t] = "done"
    /\ ~EvaluateRaises(policies, thread_local[t].signals)
    /\ Decision(thread_local[t].rtr[1]) =
           Decision(evaluate(policies, "q1", "r1", thread_local[t].signals, NoEvidence, None, 1))

\* The history holds the records of the callers in S, each exactly once
HistoryHoldsOnePerCall(S) ==
    /\ Len(evaluation_history) = Cardinality(S)
    /\ \A t \in S :
           Cardinality({i \in 1..Len(evaluation_history) :
                            evaluation_history[i] = thread_local[t].rtr[1]}) = 1

\* C12: once NumThreads concurrent evaluate() calls on one engine are over,
\* each call has returned the action, reason and responsibility it returns
\* when run alone, and evaluation_history holds exactly NumThreads records,
\* one per call, none lost or duplicated.
ConcurrentCallsAllRecorded ==
    AllFinished =>
        /\ \A t \in Threads : SameAsAlone(t)
        /\ Len(evaluation_history) = NumThreads
        /\ HistoryHoldsOnePerCall(Threads)

\* What holds without a lock: the calls that return are the calls recorded
ReturnedCallsAllRecorded ==
    AllFinished =>
        /\ \A t \in Returned : SameAsAlone(t)
        /\ HistoryHoldsOnePerCall(Returned)


(***************************************************************************)
(* The read-only calls of GovernanceCore: get_responsible_actors,          *)
(* should_escalate, get_audit_summary.                                     *)
(***************************************************************************)
\* list(rtr.responsibility.keys()): a dict keeps insertion order, which is the
\* order in which _distribute_responsibility first met each owner
RECURSIVE FirstOccurrences(_)
FirstOccurrences(s) ==
    IF s = <<>> THEN <<>>
    ELSE LET front == FirstOccurrences(SubSeq(s, 1, Len(s) - 1))
             last == s[Len(s)]
         IN IF last \in Range(front) THEN front ELSE Append(front, last)

responsibility_keys(rtr) ==
    LET flagged == SelectSeq(rtr.policies, LAMBDA e : e.reason # <<>>)
    IN IF flagged = <<>> THEN <<"Operations">>
       ELSE FirstOccurrences([i \in 1..Len(flagged) |-> flagged[i].owner])

\* sorted(keys, key=lambda k: f[k]): stable, smallest key value first
RECURSIVE sorted_ascending(_, _)
sorted_ascending(keys, f) ==
    IF keys = <<>> THEN <<>>
    ELSE LET front == sorted_ascending(SubSeq(keys, 1, Len(keys) - 1), f)
             k == keys[Len(keys)]
             ahead == Cardinality({i \in 1..Len(front) : f[front[i]] <= f[k]})
         IN SubSeq(front, 1, ahead) \o <<k>> \o SubSeq(front, ahead + 1, Len(front))

\* sorted(keys, key=lambda k: f[k], reverse=True): stable, largest key value first
RECURSIVE sorted_reverse(_, _)
sorted_reverse(keys, f) ==
    IF keys = <<>> THEN <<>>
    ELSE LET front == sorted_reverse(SubSeq(keys, 1, Len(keys) - 1), f)
             k == keys[Len(keys)]
             ahead == Cardinality({i \in 1..Len(front) : f[front[i]] >= f[k]})
         IN SubSeq(front, 1, ahead) \o <<k>> \o SubSeq(front, ahead + 1, Len(front))

\* Variant: the sort without reverse=True
get_responsible_actors_ascending(rtr) ==
    sorted_ascending(responsibility_keys(rtr), rtr.responsibility)

get_responsible_actors(rtr) ==
    sorted_reverse(responsibility_keys(rtr), rtr.responsibility)

\* max(d.values()) of a non-empty dict d
MaxValue(d) == CHOOSE x \in {d[k] : k \in DOMAIN d} : \A k \in DOMAIN d : d[k] <= x

\* Variant: a share equal to the threshold escalates
should_escalate_at_threshold(rtr, escalation_threshold) ==
    \/ rtr.action \in {"REVIEW", "BLOCK"}
    \/ MaxValue(rtr.responsibility) >= escalation_threshold

should_escalate(rtr, escalation_threshold) ==
    \/ rtr.action \in {"REVIEW", "BLOCK"}
    \/ MaxValue(rtr.responsibility) > escalation_threshold

\* history[start:] of Python: a negative start counts from the end, and an
\* out-of-range start is clipped
SliceFrom(history, start) ==
    LET n == Len(history)
        first == IF start < 0
                 THEN (IF n + start < 0 THEN 0 ELSE n + start)
                 ELSE (IF start > n THEN n ELSE start)
    IN SubSeq(history, first + 1, n)

\* The number of records of rtrs with the given action
CountAction(rtrs, action) == Cardinality({i \in 1..Len(rtrs) : rtrs[i].action = action})

\* The sum of the shares of actor over rtrs
RECURSIVE ShareTotal(_, _)
ShareTotal(rtrs, actor) ==
    IF rtrs = <<>> THEN 0
    ELSE (IF actor \in DOMAIN rtrs[1].responsibility THEN rtrs[1].responsibility[actor] ELSE 0)
         + ShareTotal(Tail(rtrs), actor)

\* The summary built from the records rtrs
Summarize(rtrs, policy_count) ==
    LET seen_actions == {rtrs[i].action : i \in 1..Len(rtrs)}
        seen_actors == UNION {DOMAIN rtrs[i].responsibility : i \in 1..Len(rtrs)}
    IN [total_decisions |-> Len(rtrs),
        action_distribution |-> [a \in seen_actions |-> CountAction(rtrs, a)],
        responsibility_distribution |-> [o \in seen_actors |-> ShareTotal(rtrs, o)],
        policies_evaluated |-> policy_count]

get_audit_summary(history, dict, limit) ==
    LET recent_rtrs == IF history # <<>> THEN SliceFrom(history, 0 - limit) ELSE <<>>
    IN Summarize(recent_rtrs, Len(dict))


(***************************************************************************)
(* A caller that evaluates and then queries one engine.                    *)
(***************************************************************************)
DefaultEscalationThreshold == 500000    \* escalation_threshold: float = 0.5

\* Thresholds a caller passes: 0.3, the default, and 1.0
Thresholds == {300000, DefaultEscalationThreshold, Unit}

\* Limits a caller passes: from none of the records to more than there are
Limits == 0..(MaxCalls + 1)

\* The engines queried: the demo's review, block and warn policies; block and
\* warn only; two warn policies of equal weight; one policy of weight zero
QueryPolicyLists ==
    { << Policy("SAFETY_FACT_MIN", "Safety", "fact_score", ">", 7000, "review", 4),
         Policy("ETHICS_TOX_MAX", "Ethics", "toxicity", "<", 2000, "block", 6),
         Policy("QUALITY_TOX_WARN", "Safety", "toxicity", "<=", 1000, "warn", 2) >>,
      << Policy("ETHICS_TOX_MAX", "Ethics", "toxicity", "<", 2000, "block", 6),
         Policy("QUALITY_TOX_WARN", "Safety", "toxicity", "<=", 1000, "warn", 2) >>,
      << Policy("QUALITY_TOX_WARN", "Safety", "toxicity", "<=", 1000, "warn", 2),
         Policy("LEGAL_TOX_WARN", "Legal", "toxicity", "<", 5000, "warn", 2) >>,
      << Policy("ETHICS_FACT_EQ", "Ethics", "fact_score", "==", 5500, "block", 0) >> }

QueryActors == {"Safety", "Ethics", "Legal", "Operations"}

\* rtr = engine.evaluate(...): the caller keeps what the call gave back
CallerEvaluate(prompt, output, signals) ==
    /\ Evaluate(prompt, output, signals, NoEvidence)
    /\ snapshots' =
           Append(snapshots,
                  IF EvaluateRaises(policies, signals) THEN None
                  ELSE Some(evaluate(policies, prompt, output, signals, NoEvidence,
                                     None, clock + 1)))
    /\ UNCHANGED <<query, response, heap, results_log>>

\* engine.get_responsible_actors(rtr) on the n-th record of the history
GetResponsibleActors(n) ==
    /\ pc = "ready"
    /\ n \in 1..Len(evaluation_history)
    /\ query' = [op |-> "get_responsible_actors",
                 rtr |-> evaluation_history[n],
                 result |-> get_responsible_actors(evaluation_history[n])]
    /\ UNCHANGED <<govVars, response, heap, results_log, snapshots>>

\* engine.should_escalate(rtr, escalation_threshold) on the n-th record
ShouldEscalate(n, escalation_threshold) ==
    /\ pc = "ready"
    /\ n \in 1..Len(evaluation_history)
    /\ query' = [op |-> "should_escalate",
                 rtr |-> evaluation_history[n],
                 escalation_threshold |-> escalation_threshold,
                 result |-> should_escalate(evaluation_history[n], escalation_threshold)]
    /\ UNCHANGED <<govVars, response, heap, results_log, snapshots>>

\* engine.get_audit_summary(limit)
GetAuditSummary(limit) ==
    /\ pc = "ready"
    /\ query' = [op |-> "get_audit_summary",
                 history |-> evaluation_history,
                 limit |-> limit,
                 result |-> get_audit_summary(evaluation_history, policies, limit)]
    /\ UNCHANGED <<govVars, response, heap, results_log, snapshots>>

QueryNext ==
    \/ \E ps \in QueryPolicyLists :
           Construct(ps, QueryActors) /\ UNCHANGED <<chainVars, threadVars, callerVars>>
    \/ \E prompt \in Prompts, output \in Outputs, signals \in SignalMaps :
           CallerEvaluate(prompt, output, signals) /\ UNCHANGED <<chainVars, threadVars>>
    \/ \E n \in 1..MaxCalls : GetResponsibleActors(n) /\ UNCHANGED <<chainVars, threadVars>>
    \/ \E n \in 1..MaxCalls, escalation_threshold \in Thresholds :
           ShouldEscalate(n, escalation_threshold) /\ UNCHANGED <<chainVars, threadVars>>
    \/ \E limit \in Limits : GetAuditSummary(limit) /\ UNCHANGED <<chainVars, threadVars>>

SpecQuery == Init /\ [][QueryNext]_vars

\* C13: after any sequence of evaluate() calls on one engine, mixed with
\* should_escalate, get_responsible_actors and get_audit_summary calls, the
\* history has one record per evaluate() call, the i-th being the record the
\* i-th call returned.
HistoryIsTheCallsInOrder ==
    /\ Len(evaluation_history) = Len(snapshots)
    /\ \A i \in 1..Len(snapshots) : snapshots[i] = Some(evaluation_history[i])

\* The calls that returned a record, in call order
ReturnedRecords ==
    LET returning == SelectSeq(snapshots, LAMBDA r : r # None)
    IN [i \in 1..Len(returning) |-> returning[i][1]]

\* What the engine does keep: the history is the records of the calls that
\* returned, in call order
HistoryIsTheReturnedCallsInOrder == evaluation_history = ReturnedRecords

\* No step removes, reorders or replaces an entry of the history
HistoryOnlyGrows ==
    [][/\ Len(evaluation_history') >= Len(evaluation_history)
       /\ SubSeq(evaluation_history', 1, Len(evaluation_history)) = evaluation_history]_vars


\* C16: should_escalate(record, threshold) is true exactly when the record's
\* action is REVIEW or BLOCK or some actor's share is strictly above the
\* threshold.
EscalatesIffReviewBlockOrShareAbove ==
    (query # None /\ query.op = "should_escalate") =>
        (query.result <=>
            \/ query.rtr.action = "REVIEW"
            \/ query.rtr.action = "BLOCK"
            \/ \E actor \in DOMAIN query.rtr.responsibility :
                   query.rtr.responsibility[actor] > query.escalation_threshold)

\* An ALLOW record whose largest share equals the threshold was not escalated
ShareAtThresholdNotEscalated ==
    /\ query # None
    /\ query.op = "should_escalate"
    /\ query.rtr.action = "ALLOW"
    /\ MaxValue(query.rtr.responsibility) = query.escalation_threshold
    /\ query.result = FALSE

\* The last min(limit, len(history)) records of history
LastRecords(history, limit) ==
    LET k == IF limit < Len(history) THEN limit ELSE Len(history)
    IN SubSeq(history, Len(history) - k + 1, Len(history))

\* C17: for every history and every limit >= 0, zero included,
\* get_audit_summary(limit) aggregates exactly the last min(limit, len(history))
\* records: total_decisions is that number, the action counts sum to it, and
\* the responsibility distribution is the per-actor sum over those records.
SummaryCoversLastLimitRecords ==
    (query # None /\ query.op = "get_audit_summary") =>
        LET last == LastRecords(query.history, query.limit)
            owners == UNION {DOMAIN last[i].responsibility : i \in 1..Len(last)}
        IN /\ query.result.total_decisions = Len(last)
           /\ SumValues(query.result.action_distribution) = Len(last)
           /\ query.result.responsibility_distribution =
                  [o \in owners |-> ShareTotal(last, o)]

\* What the slice does give: the last records for every limit of at least one
SummaryCoversLastLimitRecordsFromOne ==
    (query # None /\ query.op = "get_audit_summary" /\ query.limit >= 1) =>
        LET last == LastRecords(query.history, query.limit)
            owners == UNION {DOMAIN last[i].responsibility : i \in 1..Len(last)}
        IN /\ query.result.total_decisions = Len(last)
           /\ SumValues(query.result.action_distribution) = Len(last)
           /\ query.result.responsibility_distribution =
                  [o \in owners |-> ShareTotal(last, o)]

\* C18: get_responsible_actors(record) returns each key of
\* record.responsibility exactly once, ordered so that the shares never
\* increase, and the record is in the history as it was.
ActorsArePermutationByShare ==
    (query # None /\ query.op = "get_responsible_actors") =>
        LET share == query.rtr.responsibility
            result == query.result
        IN /\ Len(result) = Cardinality(DOMAIN share)
           /\ Range(result) = DOMAIN share
           /\ \A i \in 1..Len(result) : \A j \in i..Len(result) :
                  share[result[i]] >= share[result[j]]
           /\ \E n \in 1..Len(evaluation_history) : evaluation_history[n] = query.rtr

\* The call reordered the keys of a record with two different shares
ActorsReorderedReached ==
    /\ query # None
    /\ query.op = "get_responsible_actors"
    /\ Len(query.result) >= 2
    /\ query.result # responsibility_keys(query.rtr)
    /\ query.rtr.responsibility[query.result[1]] > query.rtr.responsibility[query.result[2]]

\* Every evaluation of the record passed with an empty reason
AllPassedSilently(rtr) ==
    \A i \in 1..Len(rtr.policies) : rtr.policies[i].passed /\ rtr.policies[i].reason = <<>>

\* C19: whenever every policy's evaluation passes with an empty reason,
\* evaluate() returns action ALLOW, reason "all_policies_passed", and the
\* responsibility map {"Operations": 1.0} with no other key.
AllPassedMeansAllowByOperations ==
    \A n \in 1..Len(evaluation_history) :
        AllPassedSilently(evaluation_history[n]) =>
            /\ evaluation_history[n].action = "ALLOW"
            /\ evaluation_history[n].reason = <<"all_policies_passed">>
            /\ evaluation_history[n].responsibility = [o \in {"Operations"} |-> Unit]

\* A record of an engine with policies, all of which passed silently
AllPoliciesPassedReached ==
    \E n \in 1..Len(evaluation_history) :
        /\ Len(evaluation_history[n].policies) >= 1
        /\ AllPassedSilently(evaluation_history[n])
        /\ evaluation_history[n].policies[1].owner # "Operations"

\* C20: for every policy whose operator is not one of <, >, ==, <=, >= and
\* whose signal is present, the evaluation has passed = false and the reason
\* "unsupported_operator:<op>", whatever the severity.
UnsupportedOperatorFailsClosed ==
    \A n \in 1..Len(evaluation_history) :
        \A i \in 1..Len(evaluation_history[n].policies) :
            LET e == evaluation_history[n].policies[i]
            IN (e.operator \notin SupportedOperators /\ e.score # None) =>
                   /\ e.passed = FALSE
                   /\ e.reason = <<"unsupported_operator", e.operator>>


(***************************************************************************)
(* The integrations: the FastAPI /evaluate endpoint and the notebook       *)
(* wrapper.  Both fill in the signals the caller left out from the output  *)
(* text before they call evaluate().                                       *)
(***************************************************************************)
\* Output texts: short and clean, long and clean, one, two and three toxic words
OutputTexts ==
    {"Hello!", "AI is machine learning technology.", "I hate it",
     "I hate everyone and want violence.", "hate kill violence"}

\* len(output)
TextLength(output) ==
    CASE output = "Hello!" -> 6
      [] output = "AI is machine learning technology." -> 34
      [] output = "I hate it" -> 9
      [] output = "I hate everyone and want violence." -> 34
      [] output = "hate kill violence" -> 18

\* sum(1 for word in ['hate', 'kill', 'violence'] if word in output.lower())
ToxicWordCount(output) ==
    CASE output = "Hello!" -> 0
      [] output = "AI is machine learning technology." -> 0
      [] output = "I hate it" -> 1
      [] output = "I hate everyone and want violence." -> 2
      [] output = "hate kill violence" -> 3

\* d after `d[key] = value`
DictSet(d, key, value) ==
    [k \in DOMAIN d \cup {key} |-> IF k = key THEN value ELSE d[k]]

\* The auto-computed signals: toxicity is the count / 10.0, confidence is 0.8
\* for an output longer than 10 characters and 0.4 otherwise
AutoToxicity(signals, output) ==
    IF "toxicity" \in DOMAIN signals THEN signals
    ELSE DictSet(signals, "toxicity", ToxicWordCount(output) * 1000)

AutoConfidence(signals, output) ==
    IF "confidence" \in DOMAIN signals THEN signals
    ELSE DictSet(signals, "confidence", IF TextLength(output) > 10 THEN 8000 ELSE 4000)

\* The signal maps a client sends: toxicity absent, 0.1 or 0.3; confidence
\* absent or 0.4
ClientSignalMaps ==
    {m \in UNION {[S -> {1000, 3000, 4000}] : S \in SUBSET {"toxicity", "confidence"}} :
         /\ "toxicity" \in DOMAIN m => m["toxicity"] \in {1000, 3000}
         /\ "confidence" \in DOMAIN m => m["confidence"] = 4000}

\* create_demo_app: the policies and actors of the endpoint's engine
ApiPolicies ==
    << Policy("DEMO_SAFETY", "Safety", "toxicity", "<", 3000, "block", 4),
       Policy("DEMO_QUALITY", "Quality", "confidence", ">", 5000, "warn", 2) >>

ApiActors == {"Safety", "Quality", "Operations"}

\* GovernanceRequest: signals is a map, or null (Optional)
Requests ==
    [prompt : Prompts, output : OutputTexts, signals : {Some(m) : m \in ClientSignalMaps} \cup {None}]

\* Variant: a blocked output is flagged, not refused
evaluate_content_flag_only(rtr, output) ==
    [status |-> 200,
     body |-> [content |-> output, action |-> rtr.action, reason |-> rtr.reason,
               responsibility |-> rtr.responsibility, audit_id |-> rtr.decision_id,
               review_required |-> rtr.action \in {"REVIEW", "BLOCK"}]]

\* evaluate_content, lines 52-66: HTTPException(403) on BLOCK, the content
\* with the decision otherwise
evaluate_content(rtr, output) ==
    IF rtr.action = "BLOCK"
    THEN [status |-> 403,
          detail |-> [error |-> "Content blocked", reason |-> rtr.reason,
                      audit_id |-> rtr.decision_id]]
    ELSE [status |-> 200,
          body |-> [content |-> output, action |-> rtr.action, reason |-> rtr.reason,
                    responsibility |-> rtr.responsibility, audit_id |-> rtr.decision_id,
                    review_required |-> rtr.action = "REVIEW"]]

\* POST /evaluate.  dict(request.signals) raises TypeError on null, which the
\* framework answers with status 500; otherwise the handler works on its own
\* copy of the signals.  response.rtr is the record the handler built, if any.
PostEvaluate(request) ==
    IF request.signals = None
    THEN /\ pc = "ready"
         /\ response' = [rtr |-> None, reply |-> [status |-> 500]]
         /\ UNCHANGED govVars
    ELSE LET signals == AutoConfidence(AutoToxicity(request.signals[1], request.output),
                                       request.output)
             rtr == evaluate(policies, request.prompt, request.output, signals,
                             NoEvidence, None, clock + 1)
         IN /\ Evaluate(request.prompt, request.output, signals, NoEvidence)
            /\ response' = [rtr |-> Some(rtr), reply |-> evaluate_content(rtr, request.output)]

ApiNext ==
    \/ Construct(ApiPolicies, ApiActors) /\ UNCHANGED <<chainVars, threadVars, callerVars>>
    \/ \E request \in Requests :
           PostEvaluate(request)
           /\ UNCHANGED <<chainVars, threadVars, query, heap, results_log, snapshots>>

SpecApi == Init /\ [][ApiNext]_vars

\* The reply carries the output text
Delivered(reply) == reply.status = 200 /\ "content" \in DOMAIN reply.body

NotebookPolicies ==
    << Policy("NOTEBOOK_QUALITY", "DataScience", "confidence", ">", 5000, "warn", 2),
       Policy("NOTEBOOK_SAFETY", "Safety", "toxicity", "<", 4000, "block", 4) >>

NotebookActors == {"DataScience", "Safety", "Operations"}

\* The values a caller writes under a signal: 0.1 or 0.5 toxicity, 0.4 confidence
CallerValues(key) == IF key = "toxicity" THEN {1000, 5000} ELSE {4000}

\* The outputs the caller submits: short and clean, long with two toxic words
NotebookOutputs == {"Hello!", "I hate everyone and want violence."}

\* The dicts a caller builds
CallerSignalMaps ==
    UNION { {m \in [S -> {1000, 5000, 4000}] : \A k \in S : m[k] \in CallerValues(k)} :
                S \in SUBSET {"toxicity", "confidence"} }

\* The record with its signals field read through the reference
Deref(rtr) == [rtr EXCEPT !.signals = heap[rtr.signals]]

\* signals = {...} in the caller
NewDict(signals) ==
    /\ pc = "ready"
    /\ Len(heap) < MaxCalls
    /\ heap' = Append(heap, signals)
    /\ UNCHANGED <<govVars, query, response, results_log, snapshots>>

\* signals[key] = value in the caller
SetSignal(ref, key, value) ==
    /\ ref \in 1..Len(heap)
    /\ heap' = [heap EXCEPT ![ref] = DictSet(heap[ref], key, value)]
    /\ heap' # heap
    /\ UNCHANGED <<govVars, query, response, results_log, snapshots>>

\* wrapper.governance.evaluate(prompt, output, signals) with the caller's dict
\* ref: RTR(signals=signals, ...) keeps the reference
EvaluateDirect(ref, prompt, output) ==
    /\ pc = "ready"
    /\ clock < MaxCalls
    /\ ref \in 1..Len(heap)
    /\ ~EvaluateRaises(policies, heap[ref])
    /\ LET rtr == evaluate(policies, prompt, output, heap[ref], NoEvidence, None, clock + 1)
       IN /\ evaluation_history' = Append(evaluation_history, [rtr EXCEPT !.signals = ref])
          /\ snapshots' = Append(snapshots, Some(rtr))
    /\ clock' = clock + 1
    /\ outcome' = "returned"
    /\ last_call' = [prompt |-> prompt, output |-> output, signals |-> heap[ref],
                     evidences |-> NoEvidence]
    /\ UNCHANGED <<pc, ctor_args, policies, actors, query, response, heap, results_log>>

\* wrapper.evaluate_output(prompt, output, signals) with the caller's dict ref:
\* the missing signals are written into that dict, then evaluate() is called
\* with it, and the result is logged
EvaluateOutput(ref, prompt, output) ==
    /\ pc = "ready"
    /\ clock < MaxCalls
    /\ ref \in 1..Len(heap)
    /\ LET signals == AutoToxicity(AutoConfidence(heap[ref], output), output)
           rtr == evaluate(policies, prompt, output, signals, NoEvidence, None, clock + 1)
       IN /\ ~EvaluateRaises(policies, signals)
          /\ heap' = [heap EXCEPT ![ref] = signals]
          /\ evaluation_history' = Append(evaluation_history, [rtr EXCEPT !.signals = ref])
          /\ snapshots' = Append(snapshots, Some(rtr))
          /\ results_log' =
                 Append(results_log,
                        [prompt |-> prompt, output |-> output, signals |-> ref,
                         action |-> rtr.action, reason |-> rtr.reason,
                         responsibility |-> rtr.responsibility,
                         audit_id |-> rtr.decision_id])
          /\ last_call' = [prompt |-> prompt, output |-> output, signals |-> signals,
                           evidences |-> NoEvidence]
    /\ clock' = clock + 1
    /\ outcome' = "returned"
    /\ UNCHANGED <<pc, ctor_args, policies, actors, query, response>>

NotebookNext ==
    \/ Construct(NotebookPolicies, NotebookActors)
       /\ UNCHANGED <<chainVars, threadVars, callerVars>>
    \/ \E signals \in CallerSignalMaps : NewDict(signals) /\ UNCHANGED <<chainVars, threadVars>>
    \/ \E ref \in 1..MaxCalls, key \in {"toxicity", "confidence"} :
           \E value \in CallerValues(key) :
               SetSignal(ref, key, value) /\ UNCHANGED <<chainVars, threadVars>>
    \/ \E ref \in 1..MaxCalls, prompt \in Prompts, output \in NotebookOutputs :
           EvaluateDirect(ref, prompt, output) /\ UNCHANGED <<chainVars, threadVars>>
    \/ \E ref \in 1..MaxCalls, prompt \in Prompts, output \in NotebookOutputs :
           EvaluateOutput(ref, prompt, output) /\ UNCHANGED <<chainVars, threadVars>>

SpecNotebook == Init /\ [][NotebookNext]_vars

\* C14: a decision record is immutable once built: the signals, policy
\* evaluations, responsibility, action, reason and evidences of every record
\* in evaluation_history are what evaluate() returned, whatever the caller
\* does afterwards with the signals map it passed.
StoredRecordsStayAsReturned ==
    \A i \in 1..Len(evaluation_history) :
        snapshots[i] = Some(Deref(evaluation_history[i]))

\* What does stay: every field the engine built itself
BuiltFieldsStayAsReturned ==
    \A i \in 1..Len(evaluation_history) :
        LET now == evaluation_history[i]
            was == snapshots[i][1]
        IN /\ now.policies = was.policies
           /\ now.responsibility = was.responsibility
           /\ now.action = was.action
           /\ now.reason = was.reason
           /\ now.evidences = was.evidences


(***************************************************************************)
(* Properties of the single policy evaluation and of the shares.           *)
(***************************************************************************)
\* The comparison a supported operator stands for; == is equality up to 0.001
Holds(operator, value, threshold) ==
    \/ operator = "<" /\ value < threshold
    \/ operator = ">" /\ value > threshold
    \/ operator = "<=" /\ ~(value > threshold)
    \/ operator = ">=" /\ ~(value < threshold)
    \/ operator = "==" /\ value - threshold < Tolerance /\ threshold - value < Tolerance

\* The evaluations of all records of the history
StoredEvaluations ==
    UNION {Range(evaluation_history[n].policies) : n \in 1..Len(evaluation_history)}

\* C21: for every policy with a supported operator whose signal is present,
\* with condition_met the operator's comparison of the value against the
\* threshold: a warn policy has passed = true, and the reason
\* "warning_condition_not_met:..." exactly when condition_met is false; a
\* review or block policy has passed = condition_met, and the reason
\* "condition_failed:..." exactly when it did not pass; otherwise the reason
\* is empty.
EvaluationFollowsOperatorAndSeverity ==
    \A e \in StoredEvaluations :
        (e.operator \in SupportedOperators /\ e.score # None) =>
            LET condition_met == Holds(e.operator, e.score[1], e.threshold)
                detail == <<e.score[1], e.operator, e.threshold>>
            IN /\ e.severity = "warn" =>
                      /\ e.passed = TRUE
                      /\ e.reason = IF condition_met THEN <<>>
                                    ELSE <<"warning_condition_not_met">> \o detail
               /\ e.severity \in {"review", "block"} =>
                      /\ e.passed = condition_met
                      /\ e.reason = IF e.passed THEN <<>>
                                    ELSE <<"condition_failed">> \o detail

\* A "<=" policy met its condition with the value equal to the threshold
BoundaryValueMetReached ==
    \E e \in StoredEvaluations :
        /\ e.operator = "<="
        /\ e.score = Some(e.threshold)
        /\ e.passed
        /\ e.reason = <<>>


\* The sum of weight * multiplier over the evaluations of a list, with the
\* multiplier 3 for block, 2 for review and 1 for warn
RECURSIVE WeightedSum(_)
WeightedSum(evaluations) ==
    IF evaluations = <<>> THEN 0
    ELSE LET e == evaluations[1]
             multiplier == CASE e.severity = "block" -> BlockMultiplier
                             [] e.severity = "review" -> ReviewMultiplier
                             [] e.severity = "warn" -> WarnMultiplier
         IN e.weight * multiplier + WeightedSum(Tail(evaluations))

\* The evaluations of a record that carry a reason
WithReason(rtr) == SelectSeq(rtr.policies, LAMBDA e : e.reason # <<>>)

\* C22: when at least one evaluation has a non-empty reason, the keys of the
\* responsibility map are exactly the owners of the evaluations with a
\* reason, and each owner's share is the sum of weight * multiplier over that
\* owner's such evaluations divided by the same sum over all owners;
\* evaluations with an empty reason contribute nothing.
SharesAreWeightedScoresOverTotal ==
    \A n \in 1..Len(evaluation_history) :
        LET rtr == evaluation_history[n]
            flagged == WithReason(rtr)
        IN flagged # <<>> =>
               /\ DOMAIN rtr.responsibility = Owners(flagged)
               /\ \A owner \in Owners(flagged) :
                      rtr.responsibility[owner] =
                          Quotient(WeightedSum(SelectSeq(flagged, LAMBDA e : e.owner = owner)),
                                   WeightedSum(flagged))

\* A record in which a failed block policy and a warning of another owner
\* share the responsibility unequally
BlockOutweighsWarningReached ==
    \E n \in 1..Len(evaluation_history) :
        LET rtr == evaluation_history[n]
            flagged == WithReason(rtr)
        IN /\ Len(flagged) = 2
           /\ flagged[1].owner # flagged[2].owner
           /\ {flagged[1].severity, flagged[2].severity} = {"block", "warn"}
           /\ \E a, b \in DOMAIN rtr.responsibility :
                  rtr.responsibility[a] > 2 * rtr.responsibility[b]


(***************************************************************************)
(* Further properties of the audit trail (checked under SpecChain).        *)
(***************************************************************************)
\* The hash verify_integrity recomputes for position j is not the stored one
EntryInvalid(j) ==
    _generate_hash_at_position(audit_records[j], j - 1, hash_chain) # hash_chain[j]

\* C23: after an in-place edit of the stored record at position i, the hash
\* recomputed for position i and for every later position differs from the
\* chain hash stored at that position: the edit invalidates that entry and
\* every later one.
EditInvalidatesEntryAndLaterOnes ==
    \A i \in 1..Len(audit_records) :
        audit_records[i] # appended[i] =>
            \A j \in i..Len(audit_records) : EntryInvalid(j)

\* What the recomputation does give when the edit changes the serialization:
\* the edited entry alone is invalid
EditInvalidatesAtMostItsEntry ==
    \A i \in 1..Len(audit_records) :
        audit_records[i] # appended[i] =>
            \A j \in 1..Len(audit_records) : EntryInvalid(j) => j = i

\* self._generate_trail_hash(): the digest of the record count, the last
\* chain hash and the first timestamp ('' when there is none)
_generate_trail_hash(records, chain) ==
    Sha256([record_count |-> Len(records),
            final_hash |-> IF chain # <<>> THEN Some(chain[Len(chain)]) ELSE None,
            creation_time |-> IF records # <<>> THEN Some(records[1]["timestamp"]) ELSE None])

\* trail.export_audit_trail(), the clock reading being the number of records
export_audit_trail ==
    [records |-> audit_records,
     hash_chain |-> hash_chain,
     integrity_verified |-> integrity_verified,
     total_records |-> Len(audit_records),
     export_timestamp |-> Str(Len(appended)),
     verification_hash |-> _generate_trail_hash(audit_records, hash_chain)]

\* C30: in every state reached by add_record calls, in-place edits of stored
\* records and verify_integrity calls, the integrity_verified field of
\* export_audit_trail() is the value verify_integrity() returns in that state.
ExportReportsCurrentIntegrity ==
    export_audit_trail.integrity_verified = verify_integrity(audit_records, hash_chain)


(***************************************************************************)
(* Further properties of the governance core (checked under Spec).         *)
(***************************************************************************)
\* The number of evaluations of a record that did not pass
FailedCount(rtr) == Cardinality({i \in 1..Len(rtr.policies) : ~rtr.policies[i].passed})

\* C25: every evaluate() call evaluates every policy supplied at construction
\* exactly once: the record holds one evaluation per supplied policy, in the
\* order supplied, its evaluation_count is the number of supplied policies and
\* its failed_policies the number of evaluations with passed = false.
EverySuppliedPolicyEvaluatedOnce ==
    \A n \in 1..Len(evaluation_history) :
        LET rtr == evaluation_history[n]
            supplied == ctor_args.policies
        IN /\ Len(rtr.policies) = Len(supplied)
           /\ \A i \in 1..Len(supplied) :
                  /\ rtr.policies[i].policy_id = supplied[i].id
                  /\ rtr.policies[i].owner = supplied[i].owner
           /\ rtr.audit.evaluation_count = Len(supplied)
           /\ rtr.audit.failed_policies = FailedCount(rtr)

\* What the engine does evaluate once each: the policies left in its dict
EveryKeptPolicyEvaluatedOnce ==
    \A n \in 1..Len(evaluation_history) :
        LET rtr == evaluation_history[n]
        IN /\ Len(rtr.policies) = Len(policies)
           /\ \A i \in 1..Len(policies) :
                  /\ rtr.policies[i].policy_id = policies[i].id
                  /\ rtr.policies[i].owner = policies[i].owner
           /\ rtr.audit.evaluation_count = Len(policies)
           /\ rtr.audit.failed_policies = FailedCount(rtr)

\* C26: in every record produced by evaluate(), every key of the
\* responsibility map is a member of the actor set the engine was
\* constructed with.
ResponsibilityKeysAreActors ==
    \A n \in 1..Len(evaluation_history) :
        DOMAIN evaluation_history[n].responsibility \subseteq actors

\* What does hold: a key is an actor or the default "Operations"
ResponsibilityKeysAreActorsOrDefault ==
    \A n \in 1..Len(evaluation_history) :
        DOMAIN evaluation_history[n].responsibility \subseteq actors \cup {"Operations"}

\* C29: after any sequence of evaluate() calls without a caller-supplied
\* decision_id, the records of the history have pairwise distinct decision_id
\* values.
DecisionIdsAreDistinct ==
    \A m, n \in 1..Len(evaluation_history) :
        m # n => evaluation_history[m].decision_id # evaluation_history[n].decision_id


(***************************************************************************)
(* A caller that validates records: those evaluate() returned, and copies  *)
(* of them with one field replaced (RTR is a public dataclass).            *)
(***************************************************************************)
\* The engines: one without policies; a block and a warn policy; a policy of
\* negative weight next to a block policy; a policy whose severity is none of
\* the three names
RecordPolicyLists ==
    { << >>,
      << Policy("ETHICS_TOX_MAX", "Ethics", "toxicity", "<", 2000, "block", 6),
         Policy("QUALITY_TOX_WARN", "Safety", "toxicity", "<=", 1000, "warn", 2) >>,
      << Policy("LEGAL_FACT_NEG", "Legal", "fact_score", ">", 9000, "review", -2),
         Policy("ETHICS_TOX_MAX", "Ethics", "toxicity", "<", 2000, "block", 6) >>,
      << Policy("ETHICS_TOX_CRIT", "Ethics", "toxicity", "<", 2000, "critical", 6) >> }

\* 0.01 as a share
OnePercent == Unit \div 100

\* How the caller changes the copy before validating it
Variations ==
    {"as_built", "short_request_hash", "short_output_hash", "no_decision_id",
     "no_responsibility", "sum_at_lower_bound", "sum_below_lower_bound",
     "sum_at_upper_bound", "sum_above_upper_bound"}

\* The responsibility map with delta added to the share of its first key
Shifted(rtr, delta) ==
    LET first == responsibility_keys(rtr)[1]
    IN [o \in DOMAIN rtr.responsibility |->
            rtr.responsibility[o] + (IF o = first THEN delta ELSE 0)]

\* dataclasses.replace(rtr, field=value) for the chosen variation
Varied(rtr, variation) ==
    CASE variation = "as_built" -> rtr
      [] variation = "short_request_hash" ->
             [rtr EXCEPT !.request_hash = Prefix(rtr.request_hash, MinHashLen - 1)]
      [] variation = "short_output_hash" ->
             [rtr EXCEPT !.output_hash = Prefix(rtr.output_hash, MinHashLen - 1)]
      [] variation = "no_decision_id" ->
             [rtr EXCEPT !.decision_id = Prefix(rtr.decision_id, 0)]
      [] variation = "no_responsibility" -> [rtr EXCEPT !.responsibility = <<>>]
      [] variation = "sum_at_lower_bound" ->
             [rtr EXCEPT !.responsibility = Shifted(rtr, 0 - OnePercent)]
      [] variation = "sum_below_lower_bound" ->
             [rtr EXCEPT !.responsibility = Shifted(rtr, 0 - OnePercent - 1)]
      [] variation = "sum_at_upper_bound" ->
             [rtr EXCEPT !.responsibility = Shifted(rtr, OnePercent)]
      [] variation = "sum_above_upper_bound" ->
             [rtr EXCEPT !.responsibility = Shifted(rtr, OnePercent + 1)]

\* valid, issues = copy.validate() on a copy of the n-th record
ValidateRecord(n, variation) ==
    /\ pc = "ready"
    /\ n \in 1..Len(evaluation_history)
    /\ LET rtr == Varied(evaluation_history[n], variation)
       IN query' = [op |-> "validate", rtr |-> rtr, variation |-> variation,
                    result |-> validate(rtr)]
    /\ UNCHANGED <<govVars, response, heap, results_log, snapshots>>

RecordNext ==
    \/ \E ps \in RecordPolicyLists :
           Construct(ps, QueryActors) /\ UNCHANGED <<chainVars, threadVars, callerVars>>
    \/ \E prompt \in Prompts, output \in Outputs, signals \in SignalMaps :
           CallerEvaluate(prompt, output, signals) /\ UNCHANGED <<chainVars, threadVars>>
    \/ \E n \in 1..MaxCalls, variation \in Variations :
           ValidateRecord(n, variation) /\ UNCHANGED <<chainVars, threadVars>>

SpecRecords == Init /\ [][RecordNext]_vars

\* A required field holds a value other than None, "", {} and []
RequiredFieldsPresent(rtr) ==
    /\ rtr.decision_id.len > 0
    /\ rtr.request_hash.len > 0
    /\ rtr.output_hash.len > 0
    /\ DOMAIN rtr.signals # {}
    /\ rtr.policies # <<>>
    /\ DOMAIN rtr.responsibility # {}

\* C24: validate(record) returns valid = true with no issues if and only if
\* every required field is present, the shares sum to a value within
\* [0.99, 1.01], no share is negative, both hash fields have length >= 16, and
\* every owner appearing in the policy evaluations is a key of the
\* responsibility map.
ValidIffAllChecksPass ==
    (query # None /\ query.op = "validate") =>
        LET rtr == query.rtr
            total == SumValues(rtr.responsibility)
        IN /\ query.result.valid <=> query.result.issues = <<>>
           /\ query.result.valid <=>
                  /\ RequiredFieldsPresent(rtr)
                  /\ 100 * total >= 99 * Unit
                  /\ 100 * total <= 101 * Unit
                  /\ \A o \in DOMAIN rtr.responsibility : rtr.responsibility[o] >= 0
                  /\ rtr.request_hash.len >= MinHashLen
                  /\ rtr.output_hash.len >= MinHashLen
                  /\ \A i \in 1..Len(rtr.policies) :
                         rtr.policies[i].owner \in DOMAIN rtr.responsibility

\* A copy whose shares sum to exactly 0.99 was found valid
SumAtLowerBoundValidReached ==
    /\ query # None
    /\ query.op = "validate"
    /\ query.variation = "sum_at_lower_bound"
    /\ 100 * SumValues(query.rtr.responsibility) = 99 * Unit
    /\ query.result.valid

\* A record whose shares sum to 1 with one of them negative was found invalid
NegativeShareRejectedReached ==
    /\ query # None
    /\ query.op = "validate"
    /\ query.variation = "as_built"
    /\ \E o \in DOMAIN query.rtr.responsibility : query.rtr.responsibility[o] < 0
    /\ 100 * SumValues(query.rtr.responsibility) >= 99 * Unit
    /\ 100 * SumValues(query.rtr.responsibility) <= 101 * Unit
    /\ ~query.result.valid

\* A record as evaluate() built it was found invalid only because the owner of
\* a passing policy has no share
MissingOwnerRejectedReached ==
    /\ query # None
    /\ query.op = "validate"
    /\ query.variation = "as_built"
    /\ Len(query.result.issues) = 1
    /\ query.result.issues[1][1] = "missing_responsibility_for_owners"

\* A record of an engine without policies was found invalid
NoPoliciesRejectedReached ==
    /\ query # None
    /\ query.op = "validate"
    /\ query.variation = "as_built"
    /\ query.rtr.policies = <<>>
    /\ ~query.result.valid

\* A record as evaluate() built it was found valid
BuiltRecordValidReached ==
    /\ query # None
    /\ query.op = "validate"
    /\ query.variation = "as_built"
    /\ query.result.valid

\* C27: whenever a record returned by evaluate() has the reason
\* "all_policies_passed", every policy evaluation in it has passed = true and
\* an empty reason, whatever severity string the policies carry.
AllPoliciesPassedIsTrue ==
    \A n \in 1..Len(evaluation_history) :
        evaluation_history[n].reason = <<"all_policies_passed">> =>
            AllPassedSilently(evaluation_history[n])

\* What holds for the three named severities (checked under Spec)
AllPoliciesPassedIsTrueForNamedSeverities ==
    \A n \in 1..Len(evaluation_history) :
        (/\ evaluation_history[n].reason = <<"all_policies_passed">>
         /\ \A i \in 1..Len(evaluation_history[n].policies) :
                evaluation_history[n].policies[i].severity \in {"warn", "review", "block"}) =>
            AllPassedSilently(evaluation_history[n])

\* C28: for every record in which all policies passed (action ALLOW, reason
\* "all_policies_passed"), should_escalate(record) with the default threshold
\* 0.5 returns false.
AllPassedIsNotEscalated ==
    (/\ query # None
     /\ query.op = "should_escalate"
     /\ query.escalation_threshold = DefaultEscalationThreshold
     /\ query.rtr.action = "ALLOW"
     /\ query.rtr.reason = <<"all_policies_passed">>) =>
        query.result = FALSE

====
